---- MODULE Spec2Model ----
(***************************************************************************)
(* Radial layout and collision avoidance of crabwalk's monitor graph       *)
(* (src/lib/graph-layout.ts).  layoutGraph is a single synchronous pass;   *)
(* the model runs it one loop iteration at a time over an input node list  *)
(* chosen in Init.                                                         *)
(*                                                                         *)
(* Numbers.  Coordinates are fixed-point: one pixel is Scale units.        *)
(* Angles are in 1/Scale radian.  Math.cos / Math.sin are computed by      *)
(* quadrant reduction and a truncated Taylor series, so that a point at    *)
(* radius r on the ray of angle a is (Cos(a) * r, Sin(a) * r).             *)
(* Session keys are naturals; NoKey is the absent / empty key.             *)
(***************************************************************************)
EXTENDS Integers, Sequences, FiniteSets, TLC

\* ------------------------------------------------------------- bounds ----
MaxSessions == 3
MaxItems == 2
MaxTs == 2
MaxTimeline == 4
MaxRing == 10
MaxChildren == 3
MaxTyped == 2
MaxOrphans == 13

\* ------------------------------------------------- program constants ----
BASE_RADIUS == 500
CHILD_OFFSET == 350
RADIAL_SPACING == 160
MIN_SIBLING_ANGLE == 4000
COLLISION_PADDING == 40
RADIUS_LIMIT == 500
RADIUS_STEP == 30
OFFSET_LIMIT == 300
OFFSET_STEP == 50
ORPHAN_EXTRA == 300

Scale == 10000
Pi == 31416
TwoPi == 2 * Pi
HalfPi == Pi \div 2
NoKey == 0

NODE_DIMENSIONS ==
  [session |-> [width |-> 280, height |-> 140],
   exec    |-> [width |-> 300, height |-> 120],
   action  |-> [width |-> 220, height |-> 100],
   crab    |-> [width |-> 64,  height |-> 64]]

DefaultDims == [width |-> 180, height |-> 80]

\* ------------------------------------------------------------ helpers ----
MinOf(S) == CHOOSE m \in S : \A o \in S : m <= o
MaxOf(S) == CHOOSE m \in S : \A o \in S : m >= o

\* cos x for 0 <= x <= Pi/4, x in 1/Scale rad, result times Scale
CosT(x) ==
  LET u == (x * x) \div Scale
      u2 == (u * u) \div Scale
      u3 == (u2 * u) \div Scale
  IN Scale - (u \div 2) + (u2 \div 24) - (u3 \div 720)

\* sin x for 0 <= x <= Pi/4
SinT(x) ==
  LET u == (x * x) \div Scale
      x3 == (x * u) \div Scale
      x5 == (x3 * u) \div Scale
      x7 == (x5 * u) \div Scale
  IN x - (x3 \div 6) + (x5 \div 120) - (x7 \div 5040)

\* cos x for 0 <= x <= Pi/2
CosQ(x) == IF 2 * x <= HalfPi THEN CosT(x) ELSE SinT(HalfPi - x)

\* Math.cos
Cos(a) ==
  LET x == a % TwoPi
  IN IF x <= HalfPi THEN CosQ(x)
     ELSE IF x <= Pi THEN 0 - CosQ(Pi - x)
     ELSE IF x <= Pi + HalfPi THEN 0 - CosQ(x - Pi)
     ELSE CosQ(TwoPi - x)

\* Math.sin
Sin(a) == Cos(a - HalfPi)

\* ------------------------------------------------------- input nodes ----
\* keyParts are the parts of a session's key string between colons; the
\* layout only compares keys, which the number in key stands for
NoData ==
  [key |-> NoKey, spawnedBy |-> NoKey, lastActivityAt |-> 0,
   sessionKey |-> NoKey, timestamp |-> 0, startedAt |-> 0,
   kind |-> "other", keyParts |-> <<>>]

InputPos == [x |-> 7 * Scale, y |-> 7 * Scale]

MkNode(id, type, data) ==
  [id |-> id, type |-> type, position |-> InputPos, data |-> data]

SessionNode(k, sb, la) ==
  MkNode(<<"session", k>>, "session",
         [NoData EXCEPT !.key = k, !.spawnedBy = sb, !.lastActivityAt = la])

ActionNode(n, sk, ts) ==
  MkNode(<<"action", n>>, "action",
         [NoData EXCEPT !.sessionKey = sk, !.timestamp = ts])

ExecNode(n, sk, ts) ==
  MkNode(<<"exec", n>>, "exec",
         [NoData EXCEPT !.sessionKey = sk, !.startedAt = ts])

CrabNode == MkNode(<<"crab", 0>>, "crab", NoData)

NoteNode(n) == MkNode(<<"note", n>>, "note", NoData)


\* -------------------------------------------------------------- state ----
VARIABLES
  nodes,                \* the nodes argument of layoutGraph
  pc,                   \* position in layoutGraph
  positionedNodes,      \* output list
  positionedNodeIds,    \* ids already output
  sessionPositions,     \* session key -> [x, y, angle]
  positionedNodeBounds, \* placement registry
  idx,                  \* index of the running for-loop (0-based, next to do)
  depth,                \* depth of the child loop
  cur,                  \* session being radiated: <<[key, x, y, angle]>> or <<>>
  itemIdx,              \* next item of cur's timeline (1-based)
  currentRadius,        \* currentRadius of the item loop
  orphanAngle,          \* orphanAngle of the orphan loop
  placed,               \* history: one record per output node, same order
  childLog,             \* history: one record per child session handled
  callsLeft,            \* calls of layoutGraph the caller has yet to make
  returned,             \* history: the node lists returned by earlier calls
  feedLeft,             \* calls the caller has yet to make on the last output
  fedBack,              \* history: the node lists that were passed in again
  edges,                \* the edges argument of layoutGraph
  result,               \* <<the value layoutGraph returned>>, <<>> before that
  typeInfo              \* getSessionTypeInfo of the rendered session nodes

vars == <<nodes, pc, positionedNodes, positionedNodeIds, sessionPositions,
          positionedNodeBounds, idx, depth, cur, itemIdx, currentRadius,
          orphanAngle, placed, childLog, callsLeft, returned, feedLeft,
          fedBack, edges, result, typeInfo>>

\* ------------------------------------------- preparation (lines 96-227) --
OfType(t) == SelectSeq(nodes, LAMBDA n : n.type = t)

\* String.prototype.replace(prefix, '') on an id of the form <<prefix, name>>
StripPrefix(id, prefix) == IF Head(id) = prefix THEN Tail(id) ELSE id

\* template literal `${prefix}-${rest}`
WithPrefix(prefix, rest) == <<prefix>> \o rest

Map(s, F(_)) == [k \in 1..Len(s) |-> F(s[k])]

sessions == Map(OfType("session"), LAMBDA n : n.data)

actions ==
  Map(OfType("action"),
      LAMBDA n : [id |-> StripPrefix(n.id, "action"), data |-> n.data])

execs ==
  Map(OfType("exec"),
      LAMBDA n : [id |-> StripPrefix(n.id, "exec"), data |-> n.data])

HasCrab == \E k \in 1..Len(nodes) : nodes[k].type = "crab"
crabNode == nodes[MinOf({k \in 1..Len(nodes) : nodes[k].type = "crab"})]

SessionKeys == LET all == sessions IN {all[k].key : k \in 1..Len(all)}

\* Array.prototype.find on the session list; callers test SessionKeys first
FindSession(key) ==
  LET all == sessions
  IN all[MinOf({k \in 1..Len(all) : all[k].key = key})]

\* variant: the parent's own depth is not looked at
getSessionDepthInner_OneLevel(sessionKey, visited) ==
  IF sessionKey \notin SessionKeys THEN 0
  ELSE IF FindSession(sessionKey).spawnedBy # NoKey THEN 1
  ELSE 0

\* the closure getSessionDepth of layoutGraph
RECURSIVE getSessionDepthInner(_, _)
getSessionDepthInner(sessionKey, visited) ==
  IF sessionKey \in visited THEN 0
  ELSE IF sessionKey \notin SessionKeys THEN 0
  ELSE LET session == FindSession(sessionKey)
       IN IF session.spawnedBy # NoKey
          THEN getSessionDepthInner(session.spawnedBy,
                                    visited \cup {sessionKey}) + 1
          ELSE 0

sessionDepth == [k \in SessionKeys |-> getSessionDepthInner(k, {})]

sessionsByDepth(d) ==
  LET depthOf == sessionDepth
  IN SelectSeq(sessions, LAMBDA s : depthOf[s.key] = d)

\* Math.max(...sessionDepth.values()); -1 stands for -Infinity
MaxSessionDepth ==
  LET depthOf == sessionDepth
  IN IF SessionKeys = {} THEN 0 - 1
     ELSE MaxOf({depthOf[k] : k \in SessionKeys})

\* the exported getSessionDepth(sessionKey, allSessions), on the same list
RECURSIVE DepthWalk(_, _, _)
DepthWalk(current, visited, d) ==
  IF current.spawnedBy = NoKey THEN d
  ELSE IF current.key \in visited THEN d
  ELSE IF current.spawnedBy \notin SessionKeys THEN d
  ELSE DepthWalk(FindSession(current.spawnedBy),
                 visited \cup {current.key}, d + 1)

getSessionDepth(sessionKey) ==
  IF sessionKey \notin SessionKeys THEN 0
  ELSE DepthWalk(FindSession(sessionKey), {}, 0)

\* Array.prototype.sort: stable; x goes before the first y with cmp(x, y) < 0
InsertPos(x, s, Cmp(_, _)) ==
  LET before == {k \in 1..Len(s) : Cmp(x, s[k]) < 0}
  IN IF before = {} THEN Len(s) + 1 ELSE MinOf(before)

InsertBy(x, s, Cmp(_, _)) ==
  LET p == InsertPos(x, s, Cmp)
  IN SubSeq(s, 1, p - 1) \o <<x>> \o SubSeq(s, p, Len(s))

ActionCmp(a, b) == a.data.timestamp - b.data.timestamp
ExecCmp(a, b) == a.data.startedAt - b.data.startedAt

\* variant: the session-first rule is missing
ItemCmp_ByTimestampOnly(a, b) == a.timestamp - b.timestamp

\* variant: the later item comes first
ItemCmp_LatestFirst(a, b) ==
  IF a.type = "session" THEN 0 - 1
  ELSE IF b.type = "session" THEN 1
  ELSE b.timestamp - a.timestamp

\* variant: of two items with the same timestamp the later one goes first,
\* as an unstable sort may order them
ItemCmp_TiesSwapped(a, b) ==
  IF a.type = "session" THEN 0 - 1
  ELSE IF b.type = "session" THEN 1
  ELSE IF a.timestamp = b.timestamp THEN 0 - 1
  ELSE a.timestamp - b.timestamp

ItemCmp(a, b) ==
  IF a.type = "session" THEN 0 - 1
  ELSE IF b.type = "session" THEN 1
  ELSE a.timestamp - b.timestamp

RECURSIVE SortActions(_)
SortActions(s) ==
  IF s = <<>> THEN <<>>
  ELSE InsertBy(s[Len(s)], SortActions(SubSeq(s, 1, Len(s) - 1)), ActionCmp)

RECURSIVE SortExecs(_)
SortExecs(s) ==
  IF s = <<>> THEN <<>>
  ELSE InsertBy(s[Len(s)], SortExecs(SubSeq(s, 1, Len(s) - 1)), ExecCmp)

RECURSIVE SortItems(_)
SortItems(s) ==
  IF s = <<>> THEN <<>>
  ELSE InsertBy(s[Len(s)], SortItems(SubSeq(s, 1, Len(s) - 1)), ItemCmp)

\* variant: the actions are not grouped by session
actionsBySession_Ungrouped(key) ==
  SortActions(SelectSeq(actions, LAMBDA a : a.data.sessionKey # NoKey))

\* actionsBySession.get(key) ?? []; an action without sessionKey is skipped
actionsBySession(key) ==
  SortActions(SelectSeq(actions,
    LAMBDA a : a.data.sessionKey # NoKey /\ a.data.sessionKey = key))

execsBySession(key) ==
  SortExecs(SelectSeq(execs,
    LAMBDA e : e.data.sessionKey # NoKey /\ e.data.sessionKey = key))

\* sessionItems.get(key).items after the final sort
sessionItems(key) ==
  LET session == FindSession(key)
      head == <<[nodeId |-> WithPrefix("session", <<session.key>>),
                 type |-> "session",
                 timestamp |-> session.lastActivityAt,
                 data |-> session]>>
      acts == Map(actionsBySession(key),
                  LAMBDA a : [nodeId |-> WithPrefix("action", a.id),
                              type |-> "action",
                              timestamp |-> a.data.timestamp,
                              data |-> a.data])
      exs == Map(execsBySession(key),
                 LAMBDA e : [nodeId |-> WithPrefix("exec", e.id),
                             type |-> "exec",
                             timestamp |-> e.data.startedAt,
                             data |-> e.data])
  IN SortItems(head \o acts \o exs)

\* ------------------------------------------------ collision detection ----
\* variant: the padding is ignored
checkCollision_NoPadding(a, b, padding) ==
  ~(\/ a.x + a.width * Scale < b.x
    \/ b.x + b.width * Scale < a.x
    \/ a.y + a.height * Scale < b.y
    \/ b.y + b.height * Scale < a.y)

checkCollision(a, b, padding) ==
  ~(\/ a.x + (a.width + padding) * Scale < b.x
    \/ b.x + (b.width + padding) * Scale < a.x
    \/ a.y + (a.height + padding) * Scale < b.y
    \/ b.y + (b.height + padding) * Scale < a.y)

\* variant: only the box registered last is tested
hasCollision_LastOnly(x, y, dims, existingNodes, padding) ==
  LET candidate == [x |-> x, y |-> y, width |-> dims.width, height |-> dims.height]
      k == Len(existingNodes)
  IN /\ k > 0
     /\ checkCollision(candidate,
                       [x |-> existingNodes[k].x, y |-> existingNodes[k].y,
                        width |-> existingNodes[k].dims.width,
                        height |-> existingNodes[k].dims.height],
                       padding)

hasCollision(x, y, dims, existingNodes, padding) ==
  LET candidate == [x |-> x, y |-> y, width |-> dims.width, height |-> dims.height]
  IN \E k \in 1..Len(existingNodes) :
       checkCollision(candidate,
                      [x |-> existingNodes[k].x, y |-> existingNodes[k].y,
                       width |-> existingNodes[k].dims.width,
                       height |-> existingNodes[k].dims.height],
                      padding)

\* NODE_DIMENSIONS[type] ?? default
DimsOf(type) ==
  IF type \in DOMAIN NODE_DIMENSIONS THEN NODE_DIMENSIONS[type] ELSE DefaultDims

\* point at distance r from (bx, by) in direction angle
RayX(bx, angle, r) == bx + Cos(angle) * r
RayY(by, angle, r) == by + Sin(angle) * r

\* variant: the budget is twice as large
RECURSIVE RadiusRetry_DoubleBudget(_, _, _, _, _, _)
RadiusRetry_DoubleBudget(bx, by, angle, radius, dims, adj) ==
  IF /\ hasCollision(RayX(bx, angle, radius + adj), RayY(by, angle, radius + adj),
                     dims, positionedNodeBounds, COLLISION_PADDING)
     /\ adj < 2 * RADIUS_LIMIT
  THEN RadiusRetry_DoubleBudget(bx, by, angle, radius, dims, adj + RADIUS_STEP)
  ELSE adj

\* the while loop of the item placement: final radiusAdjustment
RECURSIVE RadiusRetry(_, _, _, _, _, _)
RadiusRetry(bx, by, angle, radius, dims, adj) ==
  IF /\ hasCollision(RayX(bx, angle, radius + adj), RayY(by, angle, radius + adj),
                     dims, positionedNodeBounds, COLLISION_PADDING)
     /\ adj < RADIUS_LIMIT
  THEN RadiusRetry(bx, by, angle, radius, dims, adj + RADIUS_STEP)
  ELSE adj

\* variant: the child moves away in the steps of the item loop
RECURSIVE OffsetRetry_ItemStep(_, _, _, _)
OffsetRetry_ItemStep(px, py, angle, adj) ==
  IF /\ hasCollision(RayX(px, angle, CHILD_OFFSET + adj),
                     RayY(py, angle, CHILD_OFFSET + adj),
                     NODE_DIMENSIONS.session, positionedNodeBounds,
                     COLLISION_PADDING)
     /\ adj < OFFSET_LIMIT
  THEN OffsetRetry_ItemStep(px, py, angle, adj + RADIUS_STEP)
  ELSE adj

\* the while loop of the child session placement: final offsetAdjustment
RECURSIVE OffsetRetry(_, _, _, _)
OffsetRetry(px, py, angle, adj) ==
  IF /\ hasCollision(RayX(px, angle, CHILD_OFFSET + adj),
                     RayY(py, angle, CHILD_OFFSET + adj),
                     NODE_DIMENSIONS.session, positionedNodeBounds,
                     COLLISION_PADDING)
     /\ adj < OFFSET_LIMIT
  THEN OffsetRetry(px, py, angle, adj + OFFSET_STEP)
  ELSE adj


\* ------------------------------------------------------------- inputs ----
PrefixIf(b, s) == IF b THEN s ELSE <<>>

\* n sessions keyed 1..n; sb[k] is session k's spawnedBy
SessionList(n, sb, la) == [k \in 1..n |-> SessionNode(k, sb[k], la)]

\* arbitrary spawn links (none, dangling, self, cyclic), one action each
HierarchyInputs ==
  { <<CrabNode>>
      \o SessionList(n, sb, 0)
      \o [k \in 1..n |-> ActionNode(k, k, 1)] :
    <<n, sb>> \in UNION { {n1} \X [1..n1 -> 0..(n1 + 1)] : n1 \in 0..MaxSessions } }

ItemKinds ==
  ({"action", "exec"} \X (1..2) \X (1..MaxTs))
    \cup {<<"note", NoKey, 1>>, <<"action", NoKey, 1>>}

ItemNode(k, d) ==
  IF d[1] = "action" THEN ActionNode(k, d[2], d[3])
  ELSE IF d[1] = "exec" THEN ExecNode(k, d[2], d[3])
  ELSE NoteNode(k)

\* a root (and its child): any short list of actions, execs and other nodes
TimelineInputs ==
  { SessionList(n, [k \in 1..n |-> k - 1], MaxTs + 1)
      \o [k \in 1..m |-> ItemNode(k, ds[k])] :
    <<n, m, ds>> \in
      UNION { {n1} \X {m1} \X [1..m1 -> ItemKinds] :
              n1 \in 1..2, m1 \in 0..MaxItems } }

\* a root with a long timeline of one kind, and a child on the same ray
DenseInputs ==
  { SessionList(2, <<NoKey, 1>>, 0)
      \o [k \in 1..m |-> ItemNode(k, <<t, 1, k>>)]
      \o PrefixIf(c, <<ActionNode(m + 1, 2, 1)>>) :
    <<m, t, c>> \in (1..MaxTimeline) \X {"action", "exec"} \X BOOLEAN }

\* n roots and nothing else
RingInputs ==
  { <<CrabNode>> \o SessionList(n, [k \in 1..n |-> NoKey], 0) : n \in 1..MaxRing }

\* one root and its n children, nothing else
FanInputs ==
  { SessionList(n + 1, [k \in 1..(n + 1) |-> IF k = 1 THEN NoKey ELSE 1], 0) :
    n \in 1..MaxChildren }

\* sessions with arbitrary spawn links, the first of them with a kind and
\* with key parts
TypedInputs ==
  { [k \in 1..n |->
       IF k = 1
       THEN MkNode(<<"session", 1>>, "session",
                   [NoData EXCEPT !.key = 1, !.spawnedBy = sb[1],
                                  !.kind = kd, !.keyParts = kp])
       ELSE SessionNode(k, sb[k], 0)] :
    <<n, sb, kd, kp>> \in
      UNION { {n1} \X [1..n1 -> 0..(n1 + 1)] \X {"other", "cron"}
                \X {<<"main">>, <<"cron", "job">>, <<"subagent", "task">>} :
              n1 \in 1..MaxTyped } }

\* nodes of a type the layout does not know, and nothing else
OrphanInputs == { [k \in 1..n |-> NoteNode(k)] : n \in 1..MaxOrphans }

\* a full ring of roots, one of which has a child
CrowdInputs ==
  { SessionList(MaxRing + 1,
                [k \in 1..(MaxRing + 1) |-> IF k <= MaxRing THEN NoKey ELSE p],
                0) :
    p \in 1..MaxRing }

Inputs ==
  HierarchyInputs \cup TimelineInputs \cup DenseInputs \cup RingInputs
    \cup FanInputs \cup TypedInputs \cup OrphanInputs \cup CrowdInputs

\* the inputs that the caller lays out a second time
RepeatInputs == DenseInputs \cup RingInputs \cup FanInputs

\* the inputs whose output the caller passes in again
\* the items that one session s can have, and nodes of no session
OneSessionKinds(s) ==
  ({"action", "exec"} \X {s} \X (1..MaxTs)) \cup {<<"note", NoKey, 1>>}

\* the timeline inputs whose actions and execs all belong to one session,
\* the root or its child
OneTimelineInputs ==
  { SessionList(2, [k \in 1..2 |-> k - 1], MaxTs + 1)
      \o [k \in 1..m |-> ItemNode(k, ds[k])] :
    <<s, m, ds>> \in
      UNION { {s1} \X {m1} \X [1..m1 -> OneSessionKinds(s1)] :
              s1 \in 1..2, m1 \in 0..MaxItems } }

FeedbackInputs == HierarchyInputs \cup OneTimelineInputs

\* the edges that come with the nodes: one per spawn link
EdgesOf(ns) ==
  LET ss == SelectSeq(ns, LAMBDA n : n.type = "session" /\ n.data.spawnedBy # NoKey)
  IN [k \in 1..Len(ss) |->
        [source |-> <<"session", ss[k].data.spawnedBy>>, target |-> ss[k].id]]

\* ------------------------------------------------------- layoutGraph ----
Init ==
  /\ nodes \in Inputs
  /\ pc = "crab"
  /\ positionedNodes = <<>>
  /\ positionedNodeIds = {}
  /\ sessionPositions = <<>>
  /\ positionedNodeBounds = <<>>
  /\ idx = 0
  /\ depth = 0
  /\ cur = <<>>
  /\ itemIdx = 0
  /\ currentRadius = 0
  /\ orphanAngle = 0
  /\ placed = <<>>
  /\ childLog = <<>>
  /\ callsLeft = IF nodes \in RepeatInputs THEN 1 ELSE 0
  /\ returned = <<>>
  /\ feedLeft = IF nodes \in FeedbackInputs THEN 1 ELSE 0
  /\ fedBack = <<>>
  /\ edges = EdgesOf(nodes)
  /\ result = <<>>
  /\ typeInfo = <<>>

\* sessionPositions.set(key, pos)
SetPosition(key, pos) ==
  [k \in (DOMAIN sessionPositions) \cup {key} |->
     IF k = key THEN pos ELSE sessionPositions[k]]

\* variant: the crab keeps the position it came with
CrabPosition_AsGiven == crabNode.position

\* line 237
CrabPosition == [x |-> 0, y |-> 0]

\* lines 233-240: the crab goes to the centre
PlaceCrab ==
  /\ pc = "crab"
  /\ IF HasCrab
     THEN /\ positionedNodes' =
               Append(positionedNodes,
                      [crabNode EXCEPT !.position = CrabPosition])
          /\ positionedNodeIds' = positionedNodeIds \cup {crabNode.id}
          /\ placed' = Append(placed,
               [id |-> crabNode.id, by |-> "crab", session |-> NoKey,
                angle |-> 0, radius |-> 0, adj |-> 0, clear |-> TRUE, reg |-> 0])
     ELSE UNCHANGED <<positionedNodes, positionedNodeIds, placed>>
  /\ pc' = "roots"
  /\ UNCHANGED <<nodes, callsLeft, returned, feedLeft, fedBack, edges, result,
                 typeInfo, sessionPositions, positionedNodeBounds, idx, depth, cur,
                 itemIdx, currentRadius, orphanAngle, childLog>>

\* variant: the sessions one level down are laid out as roots too
rootSessions_UpToOne ==
  LET depthOf == sessionDepth
  IN SelectSeq(sessions, LAMBDA s : depthOf[s.key] <= 1)

rootSessions == sessionsByDepth(0)
\* variant: the circle is divided among all sessions, not the roots
angleStep_AllSessions == TwoPi \div MaxOf({Len(sessions), 1})

angleStep == TwoPi \div MaxOf({Len(rootSessions), 1})

\* lines 252-264: head of the root loop
BeginRoot ==
  /\ pc = "roots" /\ cur = <<>> /\ idx < Len(rootSessions)
  /\ LET session == rootSessions[idx + 1]
         angle == idx * angleStep - HalfPi
         baseX == Cos(angle) * BASE_RADIUS
         baseY == Sin(angle) * BASE_RADIUS
         pos == [x |-> baseX, y |-> baseY, angle |-> angle]
     IN /\ sessionPositions' = SetPosition(session.key, pos)
        /\ cur' = <<[key |-> session.key, x |-> baseX, y |-> baseY,
                     angle |-> angle]>>
  /\ itemIdx' = 1
  /\ currentRadius' = 0
  /\ UNCHANGED <<nodes, callsLeft, returned, feedLeft, fedBack, edges, result,
                 typeInfo, pc, positionedNodes, positionedNodeIds,
                 positionedNodeBounds, idx, depth, orphanAngle, placed, childLog>>

\* variant: the new box goes to the front of the registry
PushBounds_Unshift(bounds, box) == <<box>> \o bounds

\* positionedNodeBounds.push(box), lines 288 and 361
PushBounds(bounds, box) == Append(bounds, box)

\* variant: the radius used up by the retry is not carried forward
NextRadius_NoCarry(radius, dims, radiusAdjustment) ==
  radius + dims.height + RADIAL_SPACING

\* lines 290 and 363: currentRadius += dims.height + RADIAL_SPACING + adjustment
NextRadius(radius, dims, radiusAdjustment) ==
  radius + dims.height + RADIAL_SPACING + radiusAdjustment

\* one iteration of an item loop (lines 265-291 and 339-364)
RadiateItem(by) ==
  LET c == cur[1]
      items == sessionItems(c.key)
      item == items[itemIdx]
      dims == NODE_DIMENSIONS[item.type]
      radiusAdjustment == RadiusRetry(c.x, c.y, c.angle, currentRadius, dims, 0)
      itemX == RayX(c.x, c.angle, currentRadius + radiusAdjustment)
      itemY == RayY(c.y, c.angle, currentRadius + radiusAdjustment)
  IN /\ positionedNodes' =
          Append(positionedNodes,
                 [id |-> item.nodeId, type |-> item.type,
                  position |-> [x |-> itemX, y |-> itemY], data |-> item.data])
     /\ positionedNodeIds' = positionedNodeIds \cup {item.nodeId}
     /\ positionedNodeBounds' =
          PushBounds(positionedNodeBounds,
                     [x |-> itemX, y |-> itemY, dims |-> dims])
     /\ currentRadius' = NextRadius(currentRadius, dims, radiusAdjustment)
     /\ placed' = Append(placed,
          [id |-> item.nodeId, by |-> by, session |-> c.key, angle |-> c.angle,
           radius |-> currentRadius, adj |-> radiusAdjustment,
           clear |-> ~hasCollision(itemX, itemY, dims, positionedNodeBounds,
                                   COLLISION_PADDING),
           reg |-> Len(positionedNodeBounds) + 1])
     /\ IF itemIdx < Len(items)
        THEN /\ itemIdx' = itemIdx + 1
             /\ UNCHANGED <<cur, idx>>
        ELSE /\ itemIdx' = 0
             /\ cur' = <<>>
             /\ idx' = idx + 1

PlaceRootItem ==
  /\ pc = "roots" /\ cur # <<>>
  /\ RadiateItem("root")
  /\ UNCHANGED <<nodes, callsLeft, returned, feedLeft, fedBack, edges, result,
                 typeInfo, pc, sessionPositions, depth, orphanAngle, childLog>>

\* line 295: the root loop is over, the depth loop starts at 1
RootsDone ==
  /\ pc = "roots" /\ cur = <<>> /\ idx = Len(rootSessions)
  /\ pc' = "children"
  /\ depth' = 1
  /\ idx' = 0
  /\ UNCHANGED <<nodes, callsLeft, returned, feedLeft, fedBack, edges, result,
                 typeInfo, positionedNodes, positionedNodeIds, sessionPositions,
                 positionedNodeBounds, cur, itemIdx, currentRadius, orphanAngle,
                 placed, childLog>>

\* variant: the depth loop runs from the deepest level down
sessionsAtDepth_Descending == sessionsByDepth(MaxSessionDepth + 1 - depth)

sessionsAtDepth == sessionsByDepth(depth)

\* session.spawnedBy resolves to a session whose position is recorded
ParentPlaced(session) ==
  /\ session.spawnedBy \in SessionKeys
  /\ session.spawnedBy \in DOMAIN sessionPositions

siblings(session) ==
  SelectSeq(sessionsAtDepth, LAMBDA s : s.spawnedBy = session.spawnedBy)

siblingIndexOf(session) ==
  LET sibs == siblings(session)
  IN MinOf({k \in 1..Len(sibs) : sibs[k] = session}) - 1

\* variant: the fixed 45 degree spread of the earlier layout
angularSpread_Fixed45(siblingCount) == Pi \div 4

\* lines 310-316; (i - (n-1)/2) * (spread/n) is ((2i - (n-1)) * spread) / (2n)
angularSpread(siblingCount) ==
  MaxOf({Pi \div 3, MIN_SIBLING_ANGLE * siblingCount})

\* variant: the siblings fan out to one side of the parent's angle
siblingAngleOffset_OneSided(siblingIndex, siblingCount) ==
  IF siblingCount > 1
  THEN (siblingIndex * angularSpread(siblingCount)) \div siblingCount
  ELSE 0

siblingAngleOffset(siblingIndex, siblingCount) ==
  IF siblingCount > 1
  THEN ((2 * siblingIndex - (siblingCount - 1)) * angularSpread(siblingCount))
         \div (2 * siblingCount)
  ELSE 0

\* lines 299-303: a child whose parent is unknown or unplaced is passed over
SkipChild ==
  /\ pc = "children" /\ cur = <<>> /\ depth <= MaxSessionDepth
  /\ idx < Len(sessionsAtDepth)
  /\ ~ParentPlaced(sessionsAtDepth[idx + 1])
  /\ idx' = idx + 1
  /\ childLog' = Append(childLog,
       [key |-> sessionsAtDepth[idx + 1].key, skipped |-> TRUE,
        parent |-> sessionsAtDepth[idx + 1].spawnedBy,
        siblingIndex |-> 0, siblingCount |-> 0, adj |-> 0, clear |-> TRUE,
        regLen |-> Len(positionedNodeBounds)])
  /\ UNCHANGED <<nodes, callsLeft, returned, feedLeft, fedBack, edges, result,
                 typeInfo, pc, positionedNodes, positionedNodeIds, sessionPositions,
                 positionedNodeBounds, depth, cur, itemIdx, currentRadius,
                 orphanAngle, placed>>

\* variant: the child is put beside the place where the parent's session
\* node ended up
parentPos_AnchorNode(session) ==
  LET j == CHOOSE i \in 1..Len(positionedNodes) :
             positionedNodes[i].id = <<"session", session.spawnedBy>>
  IN [x |-> positionedNodes[j].position.x,
      y |-> positionedNodes[j].position.y,
      angle |-> sessionPositions[session.spawnedBy].angle]

\* line 302: const parentPos = sessionPositions.get(parent.key)
parentPos(session) == sessionPositions[session.spawnedBy]

\* lines 298-338: a child is put next to its parent
BeginChild ==
  /\ pc = "children" /\ cur = <<>> /\ depth <= MaxSessionDepth
  /\ idx < Len(sessionsAtDepth)
  /\ ParentPlaced(sessionsAtDepth[idx + 1])
  /\ LET session == sessionsAtDepth[idx + 1]
         from == parentPos(session)
         siblingIndex == siblingIndexOf(session)
         siblingCount == Len(siblings(session))
         childAngle == from.angle
                         + siblingAngleOffset(siblingIndex, siblingCount)
         offsetAdjustment == OffsetRetry(from.x, from.y, childAngle, 0)
         childX == RayX(from.x, childAngle, CHILD_OFFSET + offsetAdjustment)
         childY == RayY(from.y, childAngle, CHILD_OFFSET + offsetAdjustment)
     IN /\ sessionPositions' =
             SetPosition(session.key,
                         [x |-> childX, y |-> childY, angle |-> childAngle])
        /\ cur' = <<[key |-> session.key, x |-> childX, y |-> childY,
                     angle |-> childAngle]>>
        /\ childLog' = Append(childLog,
             [key |-> session.key, skipped |-> FALSE,
              parent |-> session.spawnedBy,
              siblingIndex |-> siblingIndex, siblingCount |-> siblingCount,
              adj |-> offsetAdjustment,
              clear |-> ~hasCollision(childX, childY, NODE_DIMENSIONS.session,
                                      positionedNodeBounds, COLLISION_PADDING),
              regLen |-> Len(positionedNodeBounds)])
  /\ itemIdx' = 1
  /\ currentRadius' = 0
  /\ UNCHANGED <<nodes, callsLeft, returned, feedLeft, fedBack, edges, result,
                 typeInfo, pc, positionedNodes, positionedNodeIds,
                 positionedNodeBounds, idx, depth, orphanAngle, placed>>

PlaceChildItem ==
  /\ pc = "children" /\ cur # <<>>
  /\ RadiateItem("child")
  /\ UNCHANGED <<nodes, callsLeft, returned, feedLeft, fedBack, edges, result,
                 typeInfo, pc, sessionPositions, depth, orphanAngle, childLog>>

\* variant: the depth loop starts the same depth over
NextDepth_Again ==
  /\ pc = "children" /\ cur = <<>> /\ depth <= MaxSessionDepth
  /\ idx = Len(sessionsAtDepth)
  /\ depth' = depth
  /\ idx' = 0
  /\ UNCHANGED <<nodes, callsLeft, returned, feedLeft, fedBack, edges, result,
                 typeInfo, pc, positionedNodes,
                 positionedNodeIds, sessionPositions, positionedNodeBounds, cur,
                 itemIdx, currentRadius, orphanAngle, placed, childLog>>

\* line 295: depth++
NextDepth ==
  /\ pc = "children" /\ cur = <<>> /\ depth <= MaxSessionDepth
  /\ idx = Len(sessionsAtDepth)
  /\ depth' = depth + 1
  /\ idx' = 0
  /\ UNCHANGED <<nodes, callsLeft, returned, feedLeft, fedBack, edges, result,
                 typeInfo, pc, positionedNodes, positionedNodeIds, sessionPositions,
                 positionedNodeBounds, cur, itemIdx, currentRadius, orphanAngle,
                 placed, childLog>>

\* lines 368-370: the depth loop is over
ChildrenDone ==
  /\ pc = "children" /\ cur = <<>> /\ depth > MaxSessionDepth
  /\ pc' = "orphans"
  /\ idx' = 0
  /\ orphanAngle' = 0
  /\ UNCHANGED <<nodes, callsLeft, returned, feedLeft, fedBack, edges, result,
                 typeInfo, positionedNodes, positionedNodeIds, sessionPositions,
                 positionedNodeBounds, depth, cur, itemIdx, currentRadius,
                 placed, childLog>>

\* variant: the orphans are 45 degrees apart
orphanAngleStep_Deg45 == Pi \div 4

\* line 380: orphanAngle += Math.PI / 6
orphanAngleStep == Pi \div 6

\* variant: the orphans share the circle of the roots
orphanRadius_Base == BASE_RADIUS

orphanRadius == BASE_RADIUS + ORPHAN_EXTRA

\* lines 371-382, a node that has no position yet
PlaceOrphan ==
  /\ pc = "orphans" /\ idx < Len(nodes)
  /\ nodes[idx + 1].id \notin positionedNodeIds
  /\ LET node == nodes[idx + 1]
         x == Cos(orphanAngle) * orphanRadius
         y == Sin(orphanAngle) * orphanRadius
     IN /\ positionedNodes' =
             Append(positionedNodes,
                    [node EXCEPT !.position = [x |-> x, y |-> y]])
        /\ placed' = Append(placed,
             [id |-> node.id, by |-> "orphan", session |-> NoKey,
              angle |-> orphanAngle, radius |-> orphanRadius, adj |-> 0,
              clear |-> TRUE, reg |-> 0])
  /\ orphanAngle' = orphanAngle + orphanAngleStep
  /\ idx' = idx + 1
  /\ UNCHANGED <<nodes, callsLeft, returned, feedLeft, fedBack, edges, result,
                 typeInfo, pc, positionedNodeIds, sessionPositions,
                 positionedNodeBounds, depth, cur, itemIdx, currentRadius,
                 childLog>>

\* lines 371-372, a node that is already positioned
SkipPositioned ==
  /\ pc = "orphans" /\ idx < Len(nodes)
  /\ nodes[idx + 1].id \in positionedNodeIds
  /\ idx' = idx + 1
  /\ UNCHANGED <<nodes, callsLeft, returned, feedLeft, fedBack, edges, result,
                 typeInfo, pc, positionedNodes, positionedNodeIds, sessionPositions,
                 positionedNodeBounds, depth, cur, itemIdx, currentRadius,
                 orphanAngle, placed, childLog>>

\* variant: only the edges between positioned sessions are returned
ReturnedEdges_Placed ==
  SelectSeq(edges, LAMBDA e : e.source \in positionedNodeIds
                               /\ e.target \in positionedNodeIds)

\* line 384: the edges member of the returned object
ReturnedEdges == edges

\* line 384
Return ==
  /\ pc = "orphans" /\ idx = Len(nodes)
  /\ pc' = "done"
  /\ result' = <<[nodes |-> positionedNodes, edges |-> ReturnedEdges]>>
  /\ UNCHANGED <<nodes, callsLeft, returned, feedLeft, fedBack, edges, typeInfo,
                 positionedNodes, positionedNodeIds, sessionPositions,
                 positionedNodeBounds, idx, depth, cur, itemIdx, currentRadius,
                 orphanAngle, placed, childLog>>

\* variant: the registry outlives the call
NewBounds_Kept == positionedNodeBounds

\* line 246: const positionedNodeBounds = []
NewBounds == <<>>

\* layoutGraph is called again with the same nodes: lines 229-246 run afresh
Reinvoke ==
  /\ pc = "done" /\ callsLeft > 0
  /\ callsLeft' = callsLeft - 1
  /\ returned' = Append(returned, positionedNodes)
  /\ pc' = "crab"
  /\ positionedNodes' = <<>>
  /\ positionedNodeIds' = {}
  /\ sessionPositions' = <<>>
  /\ positionedNodeBounds' = NewBounds
  /\ idx' = 0
  /\ depth' = 0
  /\ cur' = <<>>
  /\ itemIdx' = 0
  /\ currentRadius' = 0
  /\ orphanAngle' = 0
  /\ placed' = <<>>
  /\ childLog' = <<>>
  /\ result' = <<>>
  /\ UNCHANGED <<nodes, feedLeft, fedBack, edges, typeInfo>>

\* layoutGraph is called on the nodes it returned, with the same edges
Relayout ==
  /\ pc = "done" /\ feedLeft > 0
  /\ feedLeft' = feedLeft - 1
  /\ fedBack' = Append(fedBack, positionedNodes)
  /\ nodes' = result[1].nodes
  /\ edges' = result[1].edges
  /\ pc' = "crab"
  /\ positionedNodes' = <<>>
  /\ positionedNodeIds' = {}
  /\ sessionPositions' = <<>>
  /\ positionedNodeBounds' = NewBounds
  /\ idx' = 0
  /\ depth' = 0
  /\ cur' = <<>>
  /\ itemIdx' = 0
  /\ currentRadius' = 0
  /\ orphanAngle' = 0
  /\ placed' = <<>>
  /\ childLog' = <<>>
  /\ result' = <<>>
  /\ UNCHANGED <<callsLeft, returned, typeInfo>>

\* String.prototype.includes(':part:') on the session's key
KeyIncludes(session, part) ==
  \E k \in 1..Len(session.keyParts) : session.keyParts[k] = part

\* hasSpawnedSessions(session, allSessions)
hasSpawnedSessions(session) ==
  \E k \in 1..Len(sessions) : sessions[k].spawnedBy = session.key

\* variant: a session that spawned others is an orchestrator before all else
detectSessionType_OrchestratorFirst(session) ==
  IF hasSpawnedSessions(session) THEN "orchestrator"
  ELSE IF session.kind = "cron" \/ KeyIncludes(session, "cron") THEN "cron"
  ELSE IF session.spawnedBy # NoKey \/ KeyIncludes(session, "subagent")
  THEN "subagent"
  ELSE "standalone"

\* detectSessionType(session, allSessions)
detectSessionType(session) ==
  LET d == getSessionDepth(session.key)
  IN IF session.kind = "cron" \/ KeyIncludes(session, "cron") THEN "cron"
     ELSE IF session.spawnedBy # NoKey \/ KeyIncludes(session, "subagent")
     THEN "subagent"
     ELSE IF d = 0 /\ hasSpawnedSessions(session) THEN "orchestrator"
     ELSE "standalone"

\* getSessionTypeInfo(session, allSessions): the type and the depth
getSessionTypeInfo(session) ==
  [type |-> detectSessionType(session), depth |-> getSessionDepth(session.key)]

\* the session nodes are rendered: each asks for its type information
RenderSessionNodes ==
  /\ pc = "done"
  /\ pc' = "shown"
  /\ typeInfo' = [k \in 1..Len(sessions) |-> getSessionTypeInfo(sessions[k])]
  /\ UNCHANGED <<nodes, callsLeft, returned, feedLeft, fedBack, edges, result,
                 positionedNodes, positionedNodeIds, sessionPositions,
                 positionedNodeBounds, idx, depth, cur, itemIdx, currentRadius,
                 orphanAngle, placed, childLog>>

Next ==
  \/ PlaceCrab
  \/ BeginRoot
  \/ PlaceRootItem
  \/ RootsDone
  \/ SkipChild
  \/ BeginChild
  \/ PlaceChildItem
  \/ NextDepth
  \/ ChildrenDone
  \/ PlaceOrphan
  \/ SkipPositioned
  \/ Return
  \/ Reinvoke
  \/ Relayout
  \/ RenderSessionNodes

Spec == Init /\ [][Next]_vars


\* ============================================================ claims ====
Done == pc = "done"

Placers == {"root", "child"}

\* indices of the output nodes with a given id
OutIdx(id) == {j \in 1..Len(positionedNodes) : positionedNodes[j].id = id}

InputIdx(id) == MinOf({k \in 1..Len(nodes) : nodes[k].id = id})

\* overlaps(A, B, p) as the specification writes it
Overlaps(a, b, p) ==
  /\ a.x + (a.width + p) * Scale >= b.x
  /\ b.x + (b.width + p) * Scale >= a.x
  /\ a.y + (a.height + p) * Scale >= b.y
  /\ b.y + (b.height + p) * Scale >= a.y

RegBox(r) ==
  [x |-> positionedNodeBounds[r].x, y |-> positionedNodeBounds[r].y,
   width |-> positionedNodeBounds[r].dims.width,
   height |-> positionedNodeBounds[r].dims.height]

\* bounding box of the j-th output node
OutBox(j) ==
  [x |-> positionedNodes[j].position.x, y |-> positionedNodes[j].position.y,
   width |-> DimsOf(positionedNodes[j].type).width,
   height |-> DimsOf(positionedNodes[j].type).height]

\* timestamp of an output action or exec
StampOf(n) == IF n.type = "exec" THEN n.data.startedAt ELSE n.data.timestamp

\* d degrees in angle units
Deg(d) == (d * Pi) \div 180

\* C1: every input node (origin, session, action, exec, other) is in the
\* output exactly once, with a defined position, also when its session is
\* unknown, has a missing parent or sits in a spawn cycle.
C1_EveryNodeOnce ==
  /\ \A j1, j2 \in 1..Len(positionedNodes) :
       j1 # j2 => positionedNodes[j1].id # positionedNodes[j2].id
  /\ \A j \in 1..Len(positionedNodes) :
       /\ positionedNodes[j].position.x \in Int
       /\ positionedNodes[j].position.y \in Int
       /\ \E k \in 1..Len(nodes) :
            /\ nodes[k].id = positionedNodes[j].id
            /\ nodes[k].type = positionedNodes[j].type
  /\ Done => \A k \in 1..Len(nodes) : Cardinality(OutIdx(nodes[k].id)) = 1

\* a finished pass with a placed root, an orphaned session and an orphaned action
C1_Witness ==
  /\ Done
  /\ \E j \in 1..Len(placed) : placed[j].by = "root"
  /\ \E j \in 1..Len(placed) :
       placed[j].by = "orphan" /\ positionedNodes[j].type = "session"
  /\ \E j \in 1..Len(placed) :
       placed[j].by = "orphan" /\ positionedNodes[j].type = "action"

\* session k's anchor was placed by the root placer
PlacedAsRoot(k) ==
  \E j \in 1..Len(placed) :
    placed[j].id = <<"session", k>> /\ placed[j].by = "root"

\* C2: two sessions that name each other as spawnedBy both get depth 0 and
\* are laid out as root sessions.
C2_CycleDepthZero ==
  Done =>
    LET depthOf == sessionDepth
    IN \A a, b \in SessionKeys :
         (a # b /\ FindSession(a).spawnedBy = b /\ FindSession(b).spawnedBy = a)
           => /\ depthOf[a] = 0 /\ depthOf[b] = 0
              /\ PlacedAsRoot(a) /\ PlacedAsRoot(b)

\* C3: a session without spawnedBy, or whose spawnedBy names no session, has
\* depth 0 and is placed as a root on the BASE_RADIUS circle.
C3_MissingParentDepthZero ==
  Done =>
    LET depthOf == sessionDepth
    IN \A k \in SessionKeys :
         (FindSession(k).spawnedBy = NoKey
            \/ FindSession(k).spawnedBy \notin SessionKeys)
           => /\ depthOf[k] = 0
              /\ PlacedAsRoot(k)
              /\ sessionPositions[k].x = Cos(sessionPositions[k].angle) * BASE_RADIUS
              /\ sessionPositions[k].y = Sin(sessionPositions[k].angle) * BASE_RADIUS

\* C4: a box whose retry loop ended on a collision-free test does not
\* overlap, with COLLISION_PADDING, any box registered before it.
C4_ClearPlacementsDisjoint ==
  \A j \in 1..Len(placed) :
    (placed[j].by \in Placers /\ placed[j].clear)
      => \A r \in 1..(placed[j].reg - 1) :
           ~Overlaps(RegBox(r), RegBox(placed[j].reg), COLLISION_PADDING)

\* an item that was moved outward and then found free of collisions
C4_Witness ==
  \E j \in 1..Len(placed) :
    /\ placed[j].by \in Placers
    /\ placed[j].clear
    /\ placed[j].adj > 0
    /\ placed[j].reg > 1

\* C5: no two output nodes' bounding boxes overlap.
C5_NoOutputOverlap ==
  \A j1, j2 \in 1..Len(positionedNodes) :
    j1 < j2 =>
      ~(/\ OutBox(j1).x < OutBox(j2).x + OutBox(j2).width * Scale
        /\ OutBox(j2).x < OutBox(j1).x + OutBox(j1).width * Scale
        /\ OutBox(j1).y < OutBox(j2).y + OutBox(j2).height * Scale
        /\ OutBox(j2).y < OutBox(j1).y + OutBox(j1).height * Scale)

\* C6: an item's radius is bumped at most ceil(500/30) times by 30 and a
\* child's offset at most 300/50 times by 50; the candidate the loop ends on
\* is output and registered whether or not it collides, and the pass goes on
\* to place every item of every placed session.
C6_BoundedRetry ==
  /\ \A j \in 1..Len(placed) :
       placed[j].by \in Placers =>
         /\ \E k \in 0..((RADIUS_LIMIT + RADIUS_STEP - 1) \div RADIUS_STEP) :
              placed[j].adj = k * RADIUS_STEP
         /\ placed[j].reg = Cardinality({h \in 1..j : placed[h].by \in Placers})
         /\ placed[j].reg <= Len(positionedNodeBounds)
         /\ RegBox(placed[j].reg) = OutBox(j)
  /\ \A c \in 1..Len(childLog) :
       \E k \in 0..(OFFSET_LIMIT \div OFFSET_STEP) :
         childLog[c].adj = k * OFFSET_STEP
  /\ Len(positionedNodeBounds) =
       Cardinality({j \in 1..Len(placed) : placed[j].by \in Placers})
  /\ Done =>
       \A key \in DOMAIN sessionPositions :
         LET items == sessionItems(key)
         IN \A p \in 1..Len(items) :
              \E j \in 1..Len(placed) :
                /\ placed[j].id = items[p].nodeId
                /\ placed[j].by \in Placers

\* an item accepted with its budget spent and still colliding, and another
\* item placed after it
C6_Witness ==
  \E j \in 1..Len(placed) :
    /\ placed[j].by \in Placers
    /\ ~placed[j].clear
    /\ placed[j].adj >= RADIUS_LIMIT
    /\ \E h \in (j + 1)..Len(placed) : placed[h].by \in Placers

\* C7: retry moves an item by at most 500 and a child session by at most 300.
C7_AdjustmentWithinStatedMax ==
  /\ \A j \in 1..Len(placed) : placed[j].adj <= 500
  /\ \A c \in 1..Len(childLog) : childLog[c].adj <= 300

RootIndexOf(key) ==
  LET roots == rootSessions
  IN MinOf({k \in 1..Len(roots) : roots[k].key = key}) - 1

\* C8: the i-th of N roots has angle i*(360/N) - 90 degrees; its anchor and
\* all its items lie on the ray of that angle from the origin, at or beyond
\* BASE_RADIUS; three roots without items have their anchors at -90, 30 and
\* 150 degrees, exactly BASE_RADIUS away.
C8_RootAngles ==
  /\ LET roots == rootSessions
     IN \A j \in 1..Len(placed) :
       placed[j].by = "root" =>
         LET a == RootIndexOf(placed[j].session) * (TwoPi \div Len(roots))
                    - HalfPi
         IN /\ sessionPositions[placed[j].session].angle = a
            /\ \E t \in 0..((RADIUS_LIMIT + RADIUS_STEP - 1) \div RADIUS_STEP) :
                 LET r == BASE_RADIUS + placed[j].radius + t * RADIUS_STEP
                 IN /\ positionedNodes[j].position.x = Cos(a) * r
                    /\ positionedNodes[j].position.y = Sin(a) * r
  /\ (Done /\ Len(sessions) = 3 /\ Len(rootSessions) = 3
        /\ Len(actions) = 0 /\ Len(execs) = 0) =>
       \A i \in 1..3 :
         \A j \in OutIdx(<<"session", rootSessions[i].key>>) :
           LET a == Deg(<<0 - 90, 30, 150>>[i])
           IN /\ positionedNodes[j].position.x = Cos(a) * BASE_RADIUS
              /\ positionedNodes[j].position.y = Sin(a) * BASE_RADIUS

\* a root's item that collision retry moved outward, second root or later
C8_Witness ==
  \E j \in 1..Len(placed) :
    /\ placed[j].by = "root"
    /\ placed[j].adj > 0
    /\ RootIndexOf(placed[j].session) > 0

\* C9: a placed session's anchor is output before the session's actions and
\* execs whatever the timestamps, and is strictly nearer to the session's
\* base position than each of them.
C9_AnchorFirst ==
  \A j \in 1..Len(placed) :
    (placed[j].by \in Placers /\ positionedNodes[j].type # "session") =>
      \E a \in 1..(j - 1) :
        /\ placed[a].id = <<"session", placed[j].session>>
        /\ placed[a].by = placed[j].by
        /\ placed[a].radius + placed[a].adj < placed[j].radius + placed[j].adj

\* an action placed behind an anchor whose own timestamp is later
C9_Witness ==
  \E j \in 1..Len(placed) :
    /\ placed[j].by \in Placers
    /\ positionedNodes[j].type = "action"
    /\ FindSession(placed[j].session).lastActivityAt
         > positionedNodes[j].data.timestamp

\* C10: behind the anchor the items are in non-decreasing timestamp order,
\* and items of equal timestamp are in input order, actions and execs alike.
C10_TimelineInputOrder ==
  \A j1, j2 \in 1..Len(placed) :
    (/\ j1 < j2
     /\ placed[j1].by \in Placers
     /\ placed[j2].by \in Placers
     /\ placed[j1].session = placed[j2].session
     /\ positionedNodes[j1].type # "session"
     /\ positionedNodes[j2].type # "session") =>
      /\ StampOf(positionedNodes[j1]) <= StampOf(positionedNodes[j2])
      /\ StampOf(positionedNodes[j1]) = StampOf(positionedNodes[j2])
           => InputIdx(placed[j1].id) < InputIdx(placed[j2].id)


\* C11: when layoutGraph is called again on the same nodes, the nodes it
\* returns are those every earlier call returned, at the same positions and
\* in the same order, and each call starts with an empty registry.
C11_RepeatableLayout ==
  /\ Done => \A c \in 1..Len(returned) : returned[c] = positionedNodes
  /\ pc = "crab" => positionedNodeBounds = <<>>

C11_Witness ==
  /\ Done
  /\ returned # <<>>
  /\ \E j \in 1..Len(placed) : placed[j].adj > 0

\* C12: child sessions are handled in ascending depth order: by the time a
\* session of some depth is handled every root has its position and every
\* session of a smaller depth has been handled, and a child that is placed
\* has a parent whose position and angle were recorded before.  Stated of
\* the end of a pass, when childLog and placed hold the whole order of events.
C12_AscendingDepth ==
  \/ ~Done
  \/ childLog = <<>>
  \/ LET sd == sessionDepth
         dep == [c \in 1..Len(childLog) |-> sd[childLog[c].key]]
     IN /\ \A c \in 1..(Len(childLog) - 1) : dep[c] <= dep[c + 1]
        /\ \A j1, j2 \in 1..Len(placed) :
             (placed[j1].by = "root" /\ placed[j2].by = "child") => j1 < j2
        /\ \A k \in SessionKeys :
             /\ sd[k] = 0 => k \in DOMAIN sessionPositions
             /\ \A c \in 1..Len(childLog) :
                  (sd[k] >= 1 /\ sd[k] < dep[c]) =>
                    \E c0 \in 1..(c - 1) : childLog[c0].key = k
        /\ \A c \in 1..Len(childLog) :
             ~childLog[c].skipped =>
               /\ dep[c] >= 1
               /\ childLog[c].parent \in DOMAIN sessionPositions
               /\ \/ sd[childLog[c].parent] = 0
                  \/ \E c0 \in 1..(c - 1) :
                       /\ childLog[c0].key = childLog[c].parent
                       /\ ~childLog[c0].skipped

C12_Witness ==
  Done /\ \E c \in 1..Len(childLog) :
    /\ ~childLog[c].skipped
    /\ sessionDepth[childLog[c].key] = 2

\* C13: a placed child's recorded angle is its parent's recorded angle plus
\* its sibling offset, and its recorded position is the parent's recorded
\* position moved CHILD_OFFSET + k*50 along that angle, k in 0..6; every
\* candidate at a smaller k collided with the registry as it then was; an
\* only child keeps its parent's angle.
C13_ChildBesideParent ==
  \A c \in 1..Len(childLog) :
    ~childLog[c].skipped =>
      LET l == childLog[c]
          pos == sessionPositions[l.key]
          par == sessionPositions[l.parent]
          Cand(k) ==
            [x |-> par.x + Cos(pos.angle) * (CHILD_OFFSET + k * 50),
             y |-> par.y + Sin(pos.angle) * (CHILD_OFFSET + k * 50),
             width |-> NODE_DIMENSIONS.session.width,
             height |-> NODE_DIMENSIONS.session.height]
      IN /\ \E k \in 0..6 :
              /\ l.adj = k * 50
              /\ pos.x = Cand(k).x
              /\ pos.y = Cand(k).y
              /\ \A k0 \in 0..(k - 1) :
                   \E r \in 1..l.regLen :
                     Overlaps(Cand(k0), RegBox(r), COLLISION_PADDING)
         /\ pos.angle =
              par.angle + siblingAngleOffset(l.siblingIndex, l.siblingCount)
         /\ l.siblingCount = 1 => pos.angle = par.angle

\* a child with a sibling that was moved away from its parent
C13_Witness ==
  \E c \in 1..Len(childLog) :
    /\ ~childLog[c].skipped
    /\ childLog[c].siblingCount > 1
    /\ childLog[c].adj > 0
    /\ childLog[c].regLen > 0

\* the placed children, as indices of childLog
PlacedChildren == {c \in 1..Len(childLog) : ~childLog[c].skipped}

\* angle of a placed child relative to its parent's angle
OffsetOf(c) ==
  sessionPositions[childLog[c].key].angle
    - sessionPositions[childLog[c].parent].angle

\* the sessions spawned by parent that precede position p of the input
EarlierChildren(parent, p) ==
  {k \in 1..(p - 1) :
     nodes[k].type = "session" /\ nodes[k].data.spawnedBy = parent}

\* C14: child i (counted from 0 in input order) of the n children of one
\* parent has the angular offset (i - (n-1)/2) * (spread/n) with
\* spread = max(60 degrees, 0.4 rad * n); the offsets of children i and
\* n-1-i cancel, so they sum to 0, and the offsets of children i and i+1
\* differ by at least MIN_SIBLING_ANGLE.
C14_SiblingOffsets ==
  /\ \A c \in PlacedChildren :
       LET n == childLog[c].siblingCount
           i == childLog[c].siblingIndex
           id == <<"session", childLog[c].key>>
           spread == MaxOf({Deg(60), 4000 * n})
       IN /\ n = Cardinality(EarlierChildren(childLog[c].parent, Len(nodes) + 1))
          /\ i = Cardinality(EarlierChildren(childLog[c].parent, InputIdx(id)))
          /\ 2 * n * OffsetOf(c) = (2 * i - (n - 1)) * spread
  /\ \A c1, c2 \in PlacedChildren :
       childLog[c1].parent = childLog[c2].parent =>
         /\ childLog[c1].siblingIndex + childLog[c2].siblingIndex
              = childLog[c1].siblingCount - 1
            => OffsetOf(c1) + OffsetOf(c2) = 0
         /\ childLog[c2].siblingIndex = childLog[c1].siblingIndex + 1
            => OffsetOf(c2) - OffsetOf(c1) >= MIN_SIBLING_ANGLE

\* a parent all of whose three children are placed
C14_Witness ==
  /\ Done
  /\ Cardinality({c \in PlacedChildren : childLog[c].siblingCount = 3}) = 3

\* C15 as stated: the three children of one parent are placed at the
\* parent's angle -24, +0 and +24 degrees, the spread being 72 degrees.
C15_ThreeChildren72 ==
  \A c \in PlacedChildren :
    childLog[c].siblingCount = 3 =>
      /\ angularSpread(3) = Deg(72)
      /\ OffsetOf(c) = (childLog[c].siblingIndex - 1) * Deg(24)

\* C15: the three children of one parent are placed at the parent's angle
\* -0.4, +0 and +0.4 rad (between 22 and 23 degrees to either side), the
\* spread being 3 * 0.4 = 1.2 rad (between 68 and 69 degrees).
C15_ThreeChildren ==
  \A c \in PlacedChildren :
    childLog[c].siblingCount = 3 =>
      /\ angularSpread(3) = 12000
      /\ Deg(68) < angularSpread(3) /\ angularSpread(3) < Deg(69)
      /\ OffsetOf(c) = (childLog[c].siblingIndex - 1) * 4000
      /\ childLog[c].siblingIndex = 2 =>
           Deg(22) < OffsetOf(c) /\ OffsetOf(c) < Deg(23)

\* the last of three children, placed to one side of its parent's angle
C15_Witness ==
  \E c \in PlacedChildren :
    /\ childLog[c].siblingCount = 3
    /\ childLog[c].siblingIndex = 2
    /\ OffsetOf(c) > 0

\* the output nodes that the orphan loop placed
OrphanIdx == {j \in 1..Len(placed) : placed[j].by = "orphan"}

\* an action or exec whose sessionKey is empty or names no session
Unresolved(n) ==
  /\ n.type \in {"action", "exec"}
  /\ n.data.sessionKey = NoKey \/ n.data.sessionKey \notin SessionKeys

\* C16: a node that neither the origin step nor the root or child placer has
\* placed (so every action or exec with an empty or unknown sessionKey) is
\* output on the circle of radius BASE_RADIUS + 300 round the origin, the
\* k-th such node of the input (from 0) at k * 30 degrees, at exactly that
\* point whatever lies there, and adds nothing to the registry.
C16_OrphanRing ==
  /\ \A j \in OrphanIdx :
       LET k == Cardinality({h \in OrphanIdx : h < j})
       IN /\ positionedNodes[j].position.x = Cos(k * Deg(30)) * (BASE_RADIUS + 300)
          /\ positionedNodes[j].position.y = Sin(k * Deg(30)) * (BASE_RADIUS + 300)
          /\ placed[j].reg = 0
          /\ \A h \in OrphanIdx :
               h < j => InputIdx(placed[h].id) < InputIdx(placed[j].id)
          /\ \A r \in 1..Len(positionedNodeBounds) :
               \E h \in 1..(j - 1) :
                 placed[h].by \in Placers /\ placed[h].reg = r
  /\ Done =>
       \A p \in 1..Len(nodes) :
         \/ \E j \in 1..Len(placed) :
              placed[j].id = nodes[p].id /\ placed[j].by \in Placers \cup {"crab"}
         \/ \E j \in OrphanIdx : placed[j].id = nodes[p].id
  /\ Done =>
       \A p \in 1..Len(nodes) :
         Unresolved(nodes[p]) => \E j \in OrphanIdx : placed[j].id = nodes[p].id

\* an action without sessionKey and one with an unknown sessionKey, both on
\* the ring, after items that were registered
C16_Witness ==
  /\ Done
  /\ positionedNodeBounds # <<>>
  /\ \E j1, j2 \in OrphanIdx :
       /\ j1 < j2
       /\ positionedNodes[j1].type = "action"
       /\ positionedNodes[j1].data.sessionKey = NoKey
       /\ positionedNodes[j2].type = "action"
       /\ positionedNodes[j2].data.sessionKey # NoKey

\* the first candidate box of the j-th output node, before any retry
FirstCandidate(j) ==
  LET base == sessionPositions[placed[j].session]
  IN [x |-> base.x + Cos(placed[j].angle) * placed[j].radius,
      y |-> base.y + Sin(placed[j].angle) * placed[j].radius,
      width |-> DimsOf(positionedNodes[j].type).width,
      height |-> DimsOf(positionedNodes[j].type).height]

\* C17: the origin node is output at (0, 0) whatever position it came with
\* and otherwise unchanged; its box is never in the registry; and every item
\* that was moved outward was moved because its first candidate overlapped
\* the registered box of an earlier timeline item.
C17_CrabAtOrigin ==
  /\ (HasCrab /\ pc # "crab") => \E j \in 1..Len(placed) : placed[j].by = "crab"
  /\ \A j \in 1..Len(placed) :
       placed[j].by = "crab" =>
         /\ positionedNodes[j].position = [x |-> 0, y |-> 0]
         /\ positionedNodes[j] =
              [nodes[InputIdx(placed[j].id)] EXCEPT !.position = [x |-> 0, y |-> 0]]
         /\ placed[j].reg = 0
         /\ \A r \in 1..Len(positionedNodeBounds) : RegBox(r) # OutBox(j)
  /\ \A j \in 1..Len(placed) :
       (placed[j].by \in Placers /\ placed[j].adj > 0) =>
         \E h \in 1..(j - 1) :
           /\ placed[h].by \in Placers
           /\ Overlaps(FirstCandidate(j), RegBox(placed[h].reg), COLLISION_PADDING)

\* the origin node came with another position, and an item was moved
C17_Witness ==
  /\ Done
  /\ \E j \in 1..Len(placed) :
       /\ placed[j].by = "crab"
       /\ nodes[InputIdx(placed[j].id)].position # [x |-> 0, y |-> 0]
  /\ \E j \in 1..Len(placed) : placed[j].by \in Placers /\ placed[j].adj > 0

\* C18: within one pass a step leaves the registered boxes and the output
\* nodes as they are or appends to them: a step of an item loop appends one
\* node and one box, that node's box, and any other step appends no box; the
\* position recorded for a session is not changed either.
C18_RegistryAppendOnly ==
  [][pc # "done" =>
       /\ Len(positionedNodeBounds') >= Len(positionedNodeBounds)
       /\ SubSeq(positionedNodeBounds', 1, Len(positionedNodeBounds))
            = positionedNodeBounds
       /\ Len(positionedNodes') >= Len(positionedNodes)
       /\ SubSeq(positionedNodes', 1, Len(positionedNodes)) = positionedNodes
       /\ \A k \in DOMAIN sessionPositions :
            k \in DOMAIN sessionPositions'
              /\ sessionPositions'[k] = sessionPositions[k]
       /\ IF cur # <<>>
          THEN /\ Len(positionedNodes') = Len(positionedNodes) + 1
               /\ Len(positionedNodeBounds') = Len(positionedNodeBounds) + 1
               /\ LET n == positionedNodes'[Len(positionedNodes')]
                      b == positionedNodeBounds'[Len(positionedNodeBounds')]
                  IN /\ b.x = n.position.x
                     /\ b.y = n.position.y
                     /\ b.dims = NODE_DIMENSIONS[n.type]
          ELSE positionedNodeBounds' = positionedNodeBounds]_vars

\* an item that was tested against two boxes registered before it, and moved
C18_Witness ==
  \E j \in 1..Len(placed) :
    /\ placed[j].by \in Placers
    /\ placed[j].reg > 2
    /\ placed[j].adj > 0

\* edges of a box
LeftOf(a) == a.x
RightOf(a) == a.x + a.width * Scale
TopOf(a) == a.y
BottomOf(a) == a.y + a.height * Scale

\* the overlap test in terms of edges, padding p in pixels
EdgeOverlap(a, b, p) ==
  ~(\/ RightOf(a) + p * Scale < LeftOf(b)
    \/ RightOf(b) + p * Scale < LeftOf(a)
    \/ BottomOf(a) + p * Scale < TopOf(b)
    \/ BottomOf(b) + p * Scale < TopOf(a))

\* C19: checkCollision(A, B, p) is NOT(A.right + p < B.left OR B.right + p <
\* A.left OR A.bottom + p < B.top OR B.bottom + p < A.top), and hasCollision
\* of a candidate against a registry is true exactly when the candidate
\* overlaps one of its entries, so false against the empty registry; the
\* outcome recorded for each placement is the one this gives.  Stated of the
\* end of a pass, when the registry holds every box that was ever in it.
C19_CollisionTest ==
  Done =>
    /\ \A r1, r2 \in 1..Len(positionedNodeBounds) :
         \A p \in {0, COLLISION_PADDING} :
           checkCollision(RegBox(r1), RegBox(r2), p)
             = EdgeOverlap(RegBox(r1), RegBox(r2), p)
    /\ \A r \in 1..Len(positionedNodeBounds) :
         \A m \in {0, r - 1, Len(positionedNodeBounds)} :
           hasCollision(positionedNodeBounds[r].x, positionedNodeBounds[r].y,
                        positionedNodeBounds[r].dims,
                        SubSeq(positionedNodeBounds, 1, m), COLLISION_PADDING)
             = \E e \in 1..m : EdgeOverlap(RegBox(r), RegBox(e), COLLISION_PADDING)
    /\ \A j \in 1..Len(placed) :
         placed[j].by \in Placers =>
           /\ placed[j].clear =
                ~\E e \in 1..(placed[j].reg - 1) :
                   EdgeOverlap(OutBox(j), RegBox(e), COLLISION_PADDING)
           /\ placed[j].reg = 1 => placed[j].clear

\* the registry holds two boxes that collide and two that do not, and an
\* item was accepted while colliding
C19_Witness ==
  /\ Done
  /\ \E r1, r2 \in 1..Len(positionedNodeBounds) :
       r1 # r2 /\ checkCollision(RegBox(r1), RegBox(r2), COLLISION_PADDING)
  /\ \E r1, r2 \in 1..Len(positionedNodeBounds) :
       ~checkCollision(RegBox(r1), RegBox(r2), COLLISION_PADDING)
  /\ \E j \in 1..Len(placed) : placed[j].by \in Placers /\ ~placed[j].clear

\* the input is one root session and two actions of it with different
\* timestamps, in any order
OneRootTwoActions ==
  /\ Len(nodes) = 3
  /\ \E s, a, b \in 1..3 :
       /\ a # b
       /\ nodes[s].type = "session" /\ nodes[s].data.spawnedBy = NoKey
       /\ nodes[a].type = "action" /\ nodes[a].data.sessionKey = nodes[s].data.key
       /\ nodes[b].type = "action" /\ nodes[b].data.sessionKey = nodes[s].data.key
       /\ nodes[a].data.timestamp < nodes[b].data.timestamp

\* the node is output d pixels from the origin at -90 degrees, untouched by
\* the retry loop
OnUpRay(id, d) ==
  \E j \in 1..Len(positionedNodes) :
    /\ positionedNodes[j].id = id
    /\ positionedNodes[j].position.x = Cos(Deg(0 - 90)) * d
    /\ positionedNodes[j].position.y = Sin(Deg(0 - 90)) * d
    /\ positionedNodes[j].position.x = 0
    /\ positionedNodes[j].position.y = 0 - d * Scale
    /\ placed[j].adj = 0
    /\ placed[j].clear

\* C20: for a single root session with two actions of different timestamps
\* no retry happens and the output is the anchor, the earlier action and the
\* later action at 500, 800 and 1060 pixels on the -90 degree ray.
C20_SingleRootTwoActions ==
  (Done /\ OneRootTwoActions) =>
    /\ Len(positionedNodes) = 3
    /\ \A s, a, b \in 1..3 :
         (/\ nodes[s].type = "session"
          /\ nodes[a].type = "action" /\ nodes[b].type = "action"
          /\ nodes[a].data.timestamp < nodes[b].data.timestamp)
           => /\ OnUpRay(nodes[s].id, 500)
              /\ OnUpRay(nodes[a].id, 800)
              /\ OnUpRay(nodes[b].id, 1060)

\* such an input, laid out, with the later action first in the input
C20_Witness ==
  /\ Done
  /\ OneRootTwoActions
  /\ \E a, b \in 1..3 :
       /\ a < b
       /\ nodes[a].type = "action" /\ nodes[b].type = "action"
       /\ nodes[a].data.timestamp > nodes[b].data.timestamp

\* position of a step in the pass
PcRank ==
  CASE pc = "crab" -> 0
    [] pc = "roots" -> 1
    [] pc = "children" -> 2
    [] pc = "orphans" -> 3
    [] pc = "done" -> 4
    [] OTHER -> 5

\* calls finished, phase, depth of the depth loop, loop index, item index
Progress == <<Len(returned) + Len(fedBack), PcRank, depth, idx, itemIdx>>

\* lexicographic order on tuples of the same length
LexLess(a, b) ==
  \E k \in 1..Len(a) :
    /\ a[k] < b[k]
    /\ \A h \in 1..(k - 1) : a[h] = b[h]

\* every component of Progress stays within the size of the input
ProgressBounded ==
  /\ depth \in 0..(Len(sessions) + 1)
  /\ idx \in 0..Len(nodes)
  /\ itemIdx \in 0..Len(nodes)
  /\ pc = "crab" =>
       \A k \in SessionKeys : sessionDepth[k] \in 0..Len(sessions)

\* every loop index is within its loop's range, so that one of the loop's
\* steps (its body or its exit) can be taken
LoopsInRange ==
  /\ pc \in {"crab", "roots", "children", "orphans", "done", "shown"}
  /\ cur # <<>> =>
       /\ pc \in {"roots", "children"}
       /\ cur[1].key \in SessionKeys
       /\ itemIdx \in 1..Len(sessionItems(cur[1].key))
  /\ pc = "roots" => idx <= Len(rootSessions)
  /\ (pc = "children" /\ depth <= MaxSessionDepth) => idx <= Len(sessionsAtDepth)
  /\ pc = "orphans" => idx <= Len(nodes)

\* C21: a pass always ends: in every state before the return a step of the
\* current loop can be taken,
\* every step moves Progress up in the lexicographic order, and Progress is
\* bounded by the size of the input; depth resolution gives every session a
\* depth of at most the number of sessions, whatever the spawnedBy links.
C21_Terminates ==
  /\ [](ProgressBounded /\ LoopsInRange)
  /\ [][LexLess(Progress, Progress')]_vars

\* a pass has returned for an input with a session that spawned itself and
\* two sessions that spawned each other
C21_Witness ==
  /\ Done
  /\ \E a, b, c \in SessionKeys :
       /\ a # b /\ a # c /\ b # c
       /\ FindSession(a).spawnedBy = a
       /\ FindSession(b).spawnedBy = c
       /\ FindSession(c).spawnedBy = b

\* following spawnedBy from key leads, within fuel steps and through existing
\* sessions only, to a session without spawnedBy
RECURSIVE ChainEnds(_, _)
ChainEnds(key, fuel) ==
  IF key = NoKey THEN TRUE
  ELSE IF fuel = 0 \/ key \notin SessionKeys THEN FALSE
  ELSE ChainEnds(FindSession(key).spawnedBy, fuel - 1)

\* the spawnedBy links are acyclic and all name existing sessions
WellFormedLinks ==
  \A k \in 1..Len(sessions) : ChainEnds(sessions[k].key, Len(sessions))

\* position of the session with the given key in the session list
SessionIdx(key) == MinOf({k \in 1..Len(sessions) : sessions[k].key = key})

\* C22: when the spawnedBy links are acyclic and all name existing sessions,
\* a session without parent has depth 0 and every other session has depth
\* 1 + depth(parent), both in the depth the layout resolves and in the depth
\* the exported getSessionDepth reports for the rendered session nodes.
C22_DepthOfWellFormed ==
  (pc = "shown" /\ WellFormedLinks) =>
    LET sd == sessionDepth
    IN \A k \in 1..Len(sessions) :
         LET parent == sessions[k].spawnedBy
         IN IF parent = NoKey
            THEN sd[sessions[k].key] = 0 /\ typeInfo[k].depth = 0
            ELSE /\ sd[sessions[k].key] = 1 + sd[parent]
                 /\ typeInfo[k].depth = 1 + typeInfo[SessionIdx(parent)].depth

\* a chain of three sessions
C22_Witness ==
  /\ pc = "shown"
  /\ WellFormedLinks
  /\ \E k \in 1..Len(sessions) :
       typeInfo[k].depth = 2 /\ sessionDepth[sessions[k].key] = 2

\* distance from its session's recorded position at which the j-th output
\* node was placed
FinalRadius(j) == placed[j].radius + placed[j].adj

\* C23: in a session's timeline the first item starts at radius 0 and each
\* later item's base radius is the radius at which the item before it was
\* placed, plus that item's height, plus 160; so the radius a retry used up
\* stays in every later base radius and the placed radii of consecutive items
\* are at least height + 160 apart.  Each item is output at its placed radius.
C23_RadiusCarriedForward ==
  \A j \in 1..Len(placed) :
    placed[j].by \in Placers =>
      LET first == j = 1 \/ placed[j - 1].session # placed[j].session
                         \/ placed[j - 1].by \notin Placers
          base == sessionPositions[placed[j].session]
      IN /\ first => placed[j].radius = 0
         /\ ~first =>
              LET h == NODE_DIMENSIONS[positionedNodes[j - 1].type].height
              IN /\ placed[j].radius = FinalRadius(j - 1) + h + 160
                 /\ FinalRadius(j) - FinalRadius(j - 1) >= h + 160
                 /\ \A i \in 1..(j - 1) :
                      (placed[i].session = placed[j].session /\ placed[i].by \in Placers)
                        => placed[j].radius
                             >= FinalRadius(i)
                                  + NODE_DIMENSIONS[positionedNodes[i].type].height + 160
         /\ positionedNodes[j].position.x
              = base.x + Cos(placed[j].angle) * FinalRadius(j)
         /\ positionedNodes[j].position.y
              = base.y + Sin(placed[j].angle) * FinalRadius(j)

\* an item that was moved outward by the retry, with a later item in the
\* same timeline
C23_Witness ==
  \E j \in 2..Len(placed) :
    /\ placed[j].by \in Placers
    /\ placed[j - 1].by \in Placers
    /\ placed[j - 1].session = placed[j].session
    /\ placed[j - 1].adj > 0

\* the session is of kind cron or has cron as a part of its key
CronMarked(s) == s.kind = "cron" \/ "cron" \in {s.keyParts[k] : k \in 1..Len(s.keyParts)}

\* the session has a parent or has subagent as a part of its key
SubagentMarked(s) ==
  s.spawnedBy # NoKey \/ "subagent" \in {s.keyParts[k] : k \in 1..Len(s.keyParts)}

\* C24: each rendered session has one of the four types; it is cron when it
\* is marked as cron, even with a spawnedBy; otherwise subagent when it has a
\* spawnedBy or is marked as subagent, even if it has spawned sessions;
\* otherwise orchestrator when some other session names it as spawnedBy, its
\* depth then being 0; otherwise standalone.
C24_SessionTypePrecedence ==
  pc = "shown" =>
    \A k \in 1..Len(sessions) :
      LET s == sessions[k]
          t == typeInfo[k].type
          named == \E h \in 1..Len(sessions) :
                     h # k /\ sessions[h].spawnedBy = s.key
      IN /\ t \in {"cron", "subagent", "orchestrator", "standalone"}
         /\ t = "cron" <=> CronMarked(s)
         /\ t = "subagent" <=> (~CronMarked(s) /\ SubagentMarked(s))
         /\ t = "orchestrator" <=>
              (~CronMarked(s) /\ ~SubagentMarked(s) /\ named)
         /\ t = "orchestrator" =>
              (s.spawnedBy = NoKey /\ typeInfo[k].depth = 0 /\ sessionDepth[s.key] = 0)
         /\ t = "standalone" <=>
              (~CronMarked(s) /\ ~SubagentMarked(s) /\ ~named)

\* a cron session that has a parent and has spawned a session, next to a
\* session that is a subagent although it has spawned one
C24_Witness ==
  /\ pc = "shown"
  /\ \E k, h \in 1..Len(sessions) :
       /\ typeInfo[k].type = "cron"
       /\ sessions[k].spawnedBy # NoKey
       /\ sessions[h].spawnedBy = sessions[k].key
       /\ typeInfo[h].type = "subagent"
       /\ sessions[k].spawnedBy = sessions[h].key

\* the keys met when following spawnedBy from key through existing sessions,
\* key itself included, for at most fuel steps
RECURSIVE SpawnChain(_, _)
SpawnChain(key, fuel) ==
  IF key = NoKey \/ key \notin SessionKeys \/ fuel = 0 THEN {}
  ELSE {key} \cup SpawnChain(FindSession(key).spawnedBy, fuel - 1)

\* the session has a parent link and that parent has no recorded position
ParentUnplaced(key) ==
  /\ sessionDepth[key] >= 1
  /\ \/ FindSession(key).spawnedBy \notin SessionKeys
     \/ FindSession(key).spawnedBy \notin DOMAIN sessionPositions

\* the session or one of its ancestors has a parent without recorded position
CutOff(key) == \E a \in SpawnChain(key, Len(sessions)) : ParentUnplaced(a)

\* the input nodes that belong to the session: its own node, its actions and
\* its execs
NodesOfSession(key) ==
  {p \in 1..Len(nodes) :
     \/ nodes[p].type = "session" /\ nodes[p].data.key = key
     \/ nodes[p].type \in {"action", "exec"} /\ nodes[p].data.sessionKey = key}

\* C25: when the layout has finished, a session of depth >= 1 whose parent
\* is missing, cyclic or itself skipped, and every descendant of such a
\* session, has no recorded position and was passed over by the child placer;
\* its node and all its actions and execs are output by the orphan loop only,
\* on the circle of radius BASE_RADIUS + 300 round the origin.
C25_SkippedSubtreeOrphaned ==
  Done =>
    \A k \in 1..Len(sessions) :
      LET key == sessions[k].key
      IN CutOff(key) =>
           /\ key \notin DOMAIN sessionPositions
           /\ \E c \in 1..Len(childLog) : childLog[c].key = key
           /\ \A c \in 1..Len(childLog) :
                childLog[c].key = key => childLog[c].skipped
           /\ \A p \in NodesOfSession(key) :
                /\ \E j \in OrphanIdx : placed[j].id = nodes[p].id
                /\ \A j \in 1..Len(placed) :
                     placed[j].id = nodes[p].id =>
                       /\ j \in OrphanIdx
                       /\ positionedNodes[j].position.x =
                            Cos(placed[j].angle) * (BASE_RADIUS + 300)
                       /\ positionedNodes[j].position.y =
                            Sin(placed[j].angle) * (BASE_RADIUS + 300)

\* a session whose parent is missing, its child, and an action of that child
\* on the orphan ring
C25_Witness ==
  /\ Done
  /\ \E s, t \in 1..Len(sessions) :
       /\ sessions[s].spawnedBy # NoKey
       /\ sessions[s].spawnedBy \notin SessionKeys
       /\ sessions[t].spawnedBy = sessions[s].key
       /\ s # t
       /\ \E p \in NodesOfSession(sessions[t].key) :
            /\ nodes[p].type = "action"
            /\ \E j \in OrphanIdx : placed[j].id = nodes[p].id

\* C26: for every session of the input, the depth that the layout's internal
\* recursive resolution gives equals the depth that the exported
\* getSessionDepth gives, which is also the depth shown with the rendered
\* session; dangling parents, self-loops and cycles included.
C26_DepthsAgree ==
  /\ \A k \in SessionKeys : sessionDepth[k] = getSessionDepth(k)
  /\ pc = "shown" =>
       \A k \in 1..Len(sessions) :
         typeInfo[k].depth = sessionDepth[sessions[k].key]

\* the position that a list of output nodes gives to the node at index j
PositionAt(out, j) == out[j].position

\* C27: when layoutGraph has been called again on the node list it returned,
\* with the edges it returned, the second result has the same node ids as
\* the first and gives every node id the position of the first pass.
C27_IdempotentOnOutput ==
  (Done /\ fedBack # <<>>) =>
    LET first == fedBack[Len(fedBack)]
    IN /\ {first[i].id : i \in 1..Len(first)}
            = {positionedNodes[j].id : j \in 1..Len(positionedNodes)}
       /\ Len(first) = Len(positionedNodes)
       /\ \A i \in 1..Len(first) :
            \A j \in 1..Len(positionedNodes) :
              first[i].id = positionedNodes[j].id =>
                PositionAt(first, i) = PositionAt(positionedNodes, j)

\* the second pass has finished on a list that the first pass had reordered:
\* an action that came later in the original input now precedes an earlier
\* one of the same session, and a node of the orphan ring follows them
C27_Witness ==
  /\ Done /\ fedBack # <<>>
  /\ \E p, q \in 1..Len(nodes) :
       /\ p < q
       /\ nodes[p].type = "action" /\ nodes[q].type = "action"
       /\ nodes[p].data.sessionKey = nodes[q].data.sessionKey
       /\ nodes[p].data.sessionKey \in DOMAIN sessionPositions
       /\ nodes[p].id[2] > nodes[q].id[2]
  /\ \E j \in 1..Len(placed) : placed[j].by = "child"

\* C28: no step of a pass changes the nodes or the edges that layoutGraph was
\* called with (array, order, positions and data alike), and the edges of
\* the returned value are exactly the edges passed in, whether or not their
\* endpoints were laid out.
C28_ArgumentsUnchanged ==
  /\ [](Done => (Len(result) = 1 /\ result[1].edges = edges))
  /\ [][pc # "done" => (nodes' = nodes /\ edges' = edges)]_vars

\* a finished pass that returned its nodes in another order than the input
\* and was given an edge from a session that is not among the nodes
C28_Witness ==
  /\ Done /\ Len(result) = 1
  /\ result[1].edges = edges
  /\ \E e \in 1..Len(edges) : edges[e].source \notin positionedNodeIds
  /\ \E p \in 1..Len(nodes) : result[1].nodes[p].id # nodes[p].id
  /\ \A p \in 1..Len(nodes) : nodes[p].position = InputPos

\* the number of orphans output before the one at index j
OrphanRank(j) == Cardinality({h \in OrphanIdx : h < j})

\* C29: the orphan output as number k (from 0) is at angle k * 30 degrees,
\* whatever was output there before, so two orphans whose numbers differ by
\* 12 are at the same position, and two whose numbers differ by less than 12
\* are at different positions: the ring has 12 slots.
C29_TwelveOrphanSlots ==
  \A j \in OrphanIdx :
    /\ placed[j].angle = OrphanRank(j) * Deg(30)
    /\ \A h \in OrphanIdx :
         LET apart == OrphanRank(j) - OrphanRank(h)
         IN /\ apart = 12 =>
                 positionedNodes[j].position = positionedNodes[h].position
            /\ (apart > 0 /\ apart < 12) =>
                 positionedNodes[j].position # positionedNodes[h].position
            /\ apart > 0 => InputIdx(placed[h].id) < InputIdx(placed[j].id)

\* thirteen orphans are out: the first and the thirteenth share a position
C29_Witness ==
  \E j, h \in OrphanIdx :
    /\ OrphanRank(h) = 0 /\ OrphanRank(j) = 12
    /\ positionedNodes[j].position = positionedNodes[h].position
    /\ positionedNodes[j].id # positionedNodes[h].id

\* the output indices of the session node of the session with the given key
AnchorIdx(key) ==
  {j \in 1..Len(placed) :
     placed[j].id = <<"session", key>> /\ placed[j].by \in Placers}

\* C30: the position recorded for root i of N is BASE_RADIUS times the
\* direction of angle i * (360/N) - 90 degrees, whether or not its session
\* node was moved outward; the position recorded for a placed child is the
\* recorded position of its parent moved by CHILD_OFFSET plus the offset
\* adjustment along the child's angle, whatever happened to the session
\* nodes of parent and child; a session node is at the recorded position
\* plus its own radius adjustment, and a child's session node is at the
\* recorded position when the offset retry ended clear of every box.
C30_RecordedPositions ==
  /\ LET roots == rootSessions
     IN \A i \in 1..Len(roots) :
          roots[i].key \in DOMAIN sessionPositions =>
            LET pos == sessionPositions[roots[i].key]
                a == (i - 1) * (TwoPi \div Len(roots)) - HalfPi
            IN /\ pos.angle = a
               /\ pos.x = Cos(a) * BASE_RADIUS
               /\ pos.y = Sin(a) * BASE_RADIUS
  /\ \A key \in DOMAIN sessionPositions :
       LET pos == sessionPositions[key]
       IN \A j \in AnchorIdx(key) :
            /\ positionedNodes[j].position.x
                 = pos.x + Cos(pos.angle) * placed[j].adj
            /\ positionedNodes[j].position.y
                 = pos.y + Sin(pos.angle) * placed[j].adj
  /\ \A c \in PlacedChildren :
       LET l == childLog[c]
           pos == sessionPositions[l.key]
           par == sessionPositions[l.parent]
       IN /\ pos.x = par.x + Cos(pos.angle) * (CHILD_OFFSET + l.adj)
          /\ pos.y = par.y + Sin(pos.angle) * (CHILD_OFFSET + l.adj)
          /\ l.clear =>
               \A j \in AnchorIdx(l.key) :
                 /\ placed[j].adj = 0
                 /\ positionedNodes[j].position = [x |-> pos.x, y |-> pos.y]

\* a root whose session node was moved outward has a placed child, and that
\* child's session node is at the child's recorded position
C30_Witness ==
  \E c \in PlacedChildren :
    /\ \E j \in AnchorIdx(childLog[c].parent) :
         placed[j].by = "root" /\ placed[j].adj > 0
    /\ childLog[c].clear
    /\ \E j \in AnchorIdx(childLog[c].key) :
         positionedNodes[j].position.x = sessionPositions[childLog[c].key].x

====
